---- MODULE Spec2Model ----
(***************************************************************************)
(* Procurement Request System: the SQLite request store                    *)
(* (app/services/database.py, app/routes/requests.py) and the PDF upload   *)
(* orchestration (app/routes/ai.py).                                       *)
(*                                                                         *)
(* Every database function opens its own connection through get_db().      *)
(* Python's sqlite3 module opens a transaction implicitly before the first *)
(* INSERT/UPDATE/REPLACE of a connection; a SELECT runs on its own.  The    *)
(* transaction holds SQLite's single write lock until conn.commit(); when  *)
(* the with-body raises, get_db() skips the commit and conn.close() rolls  *)
(* the transaction back.  db is the committed database every SELECT reads, *)
(* wdb the private working copy of the connection that holds the lock.     *)
(***************************************************************************)
EXTENDS Integers, Sequences, FiniteSets, TLC

----------------------------------------------------------------------------
(* Bounds of the model *)

MaxRequests == 1
MaxCreates == 2
MaxUpdates == 2
MaxFullUpdates == 1
MaxClock == 1
MaxSeqCreates == 11

\* the worker processes of the server; each runs one call at a time
Procs == {1, 2}

----------------------------------------------------------------------------
(* Values *)

Statuses == {"Open", "In Progress", "Closed"}

Line1 == [description |-> "Laptop", unit_price |-> 900, amount |-> 2,
          unit |-> "pcs", total_price |-> 1800]
Line2 == [description |-> "Dock", unit_price |-> 100, amount |-> 1,
          unit |-> "pcs", total_price |-> 100]

Payload1 == [requestor_name |-> "Ann", title |-> "Laptops",
             vendor_name |-> "ACME", vat_id |-> "DE123456789",
             commodity_group_id |-> "031", total_cost |-> 1900,
             department |-> "IT", order_lines |-> <<Line1, Line2>>]
Payload2 == [requestor_name |-> "Bob", title |-> "Docks",
             vendor_name |-> "Foo GmbH", vat_id |-> "ATU12345678",
             commodity_group_id |-> "029", total_cost |-> 100,
             department |-> "HR", order_lines |-> <<Line2>>]

Payloads == {Payload1, Payload2}

FileHashes == {"h1", "h2"}
Filenames == {"offer.pdf"}
CacheFilenames == {"offer.pdf", "scan.pdf"}
Extractions == {[title |-> "A"], [title |-> "B"]}

NoData == [none |-> TRUE]

\* json.dumps of a dict of JSON values, and json.loads of such a text
json_dumps(data) == [json |-> data]

json_loads(text) == text.json

\* hashlib.sha256(content).hexdigest(): one digest per content
compute_file_hash(content) == [sha256 |-> content]
NoRow == [none |-> TRUE]

----------------------------------------------------------------------------
(* get_next_request_id: f"REQ-{count + 1:04d}" *)

Digit == <<"0", "1", "2", "3", "4", "5", "6", "7", "8", "9">>

RECURSIVE Decimal(_)
Decimal(n) == IF n < 10 THEN Digit[n + 1]
              ELSE Decimal(n \div 10) \o Digit[(n % 10) + 1]

RECURSIVE ZeroPad(_, _)
ZeroPad(s, width) == IF Len(s) >= width THEN s ELSE ZeroPad("0" \o s, width)

\* a variant without the zero padding of the format specification
FormatRequestId_Unpadded(n) == "REQ-" \o Decimal(n)

FormatRequestId(n) == "REQ-" \o ZeroPad(Decimal(n), 4)

\* the ids callers ask for: those the store hands out and one it never does
RequestIds == {FormatRequestId(n) : n \in 1..(MaxRequests + 1)}

AllIds == {FormatRequestId(n) : n \in 1..(MaxRequests + MaxCreates + MaxSeqCreates)}

----------------------------------------------------------------------------
(* Python values of the upload route: a JSON value is None, a string (a    *)
(* sequence of characters), a number, a list or a dict                     *)

MaxPages == 2

MAX_PDF_SIZE_BYTES == 10 * 1024 * 1024

None == [t |-> "None"]
Str(chars) == [t |-> "str", v |-> chars]
Num(n) == [t |-> "num", v |-> n]
List(items) == [t |-> "list", v |-> items]
Dict(items) == [t |-> "dict", v |-> items]

\* bool(x)
Truthy(x) ==
    CASE x.t = "None" -> FALSE
      [] x.t = "str" -> x.v # <<>>
      [] x.t = "num" -> x.v # 0
      [] x.t = "list" -> x.v # <<>>
      [] x.t = "dict" -> DOMAIN x.v # {}

RECURSIVE DecimalChars(_)
DecimalChars(n) == IF n < 10 THEN <<Digit[n + 1]>>
                   ELSE Append(DecimalChars(n \div 10), Digit[(n % 10) + 1])

\* str(x) of None, a string or a non-negative integer
PyStr(x) ==
    CASE x.t = "None" -> <<"N", "o", "n", "e">>
      [] x.t = "str" -> x.v
      [] x.t = "num" -> DecimalChars(x.v)

IsSpace(ch) == ch \in {" ", "\t", "\n"}

RECURSIVE LStrip(_)
LStrip(s) == IF s # <<>> /\ IsSpace(Head(s)) THEN LStrip(Tail(s)) ELSE s

RECURSIVE RStrip(_)
RStrip(s) == IF s # <<>> /\ IsSpace(s[Len(s)])
             THEN RStrip(SubSeq(s, 1, Len(s) - 1)) ELSE s

\* s.strip()
Strip(s) == RStrip(LStrip(s))

\* d.get(key, default)
Get(d, key, default) == IF key \in DOMAIN d THEN d[key] ELSE default

\* s.lower() on the letters of the file names below
LowerChar(ch) ==
    CASE ch = "P" -> "p"
      [] ch = "D" -> "d"
      [] ch = "F" -> "f"
      [] OTHER -> ch

Lower(s) == [i \in 1..Len(s) |-> LowerChar(s[i])]

\* s.endswith(suffix)
EndsWith(s, suffix) ==
    /\ Len(s) >= Len(suffix)
    /\ SubSeq(s, Len(s) - Len(suffix) + 1, Len(s)) = suffix

RECURSIVE Join(_, _)
\* sep.join(parts)
Join(sep, parts) ==
    IF parts = <<>> THEN <<>>
    ELSE IF Len(parts) = 1 THEN parts[1]
    ELSE parts[1] \o sep \o Join(sep, Tail(parts))

RECURSIVE Concat(_)
Concat(parts) == IF parts = <<>> THEN <<>> ELSE Head(parts) \o Concat(Tail(parts))

----------------------------------------------------------------------------
(* Uploaded files.  A file is its name, its size, whether PyPDF2 and        *)
(* PyMuPDF can open it, and per page what page.extract_text() gives: a     *)
(* string, None, or an exception                                           *)

PageRaises == [t |-> "raise"]

PageOutcomes == {Str(<<"a", "b">>), Str(<<" ">>), None, PageRaises}

PdfName == <<"o", ".", "p", "d", "f">>
UpperPdfName == <<"O", ".", "P", "D", "F">>
TextName == <<"o", ".", "t", "x", "t">>

RECURSIVE SeqsUpTo(_, _)
SeqsUpTo(S, n) ==
    IF n = 0 THEN {<<>>}
    ELSE LET shorter == SeqsUpTo(S, n - 1)
         IN shorter \cup {Append(s, x) : s \in {t \in shorter : Len(t) = n - 1},
                                         x \in S}

PdfFile(filename, size, readable, pages) ==
    [filename |-> filename, size |-> size, readable |-> readable, pages |-> pages]

Files ==
    {PdfFile(None, 1, TRUE, <<>>),
     PdfFile(Str(<<>>), 1, TRUE, <<>>),
     PdfFile(Str(TextName), 1, TRUE, <<>>),
     PdfFile(Str(UpperPdfName), MAX_PDF_SIZE_BYTES, TRUE, <<Str(<<"a", "b">>)>>),
     PdfFile(Str(PdfName), MAX_PDF_SIZE_BYTES + 1, TRUE, <<>>),
     PdfFile(Str(PdfName), 1, FALSE, <<>>)}
    \cup {PdfFile(Str(PdfName), 1, TRUE, pages) :
              pages \in SeqsUpTo(PageOutcomes, MaxPages)}

----------------------------------------------------------------------------
(* What the language model can answer: a dict that deviates from a         *)
(* complete answer in at most one field, or the empty dict                 *)

Fields == {"vat_id", "vendor_name", "department", "title", "order_lines",
           "total_cost"}

TextFields == {"vat_id", "vendor_name", "department", "title"}

BasePypdf ==
    [vat_id |-> Str(<<"D", "E", "1">>),
     vendor_name |-> Str(<<"A", "G">>),
     department |-> Str(<<"I", "T">>),
     title |-> Str(<<"P", "C">>),
     order_lines |-> List(<<"line1", "line2">>),
     total_cost |-> Num(50)]

BaseOcr ==
    [vat_id |-> Str(<<"D", "E", "1", "2">>),
     vendor_name |-> Str(<<"B">>),
     department |-> Str(<<"H", "R", "1">>),
     title |-> Str(<<"P">>),
     order_lines |-> List(<<"line1">>),
     total_cost |-> Num(7)]

Alternatives(field) ==
    IF field \in TextFields
    THEN {None, Str(<<>>), Str(<<" ">>), Str(<<" ", "X", "Y", "Z", "W", " ">>)}
    ELSE IF field = "order_lines"
    THEN {None, List(<<>>), List(<<"line3", "line4">>),
          List(<<"line1", "line2", "line3">>)}
    ELSE {None, Num(0), Num(1234)}

Without(d, field) == [f \in DOMAIN d \ {field} |-> d[f]]

Answers(base) ==
    {base, [f \in {} |-> None]}
    \cup {Without(base, field) : field \in Fields}
    \cup UNION {{[base EXCEPT ![field] = value] : value \in Alternatives(field)} :
                   field \in Fields}

\* a structural answer that found no department
PoorPypdf == [BasePypdf EXCEPT !["department"] = Str(<<>>)]

PypdfAnswers == Answers(BasePypdf) \cup Answers(PoorPypdf)

OcrAnswers == Answers(BaseOcr)

NoResponse == [status |-> 0, body |-> None]

NoUpload == [pc |-> "idle", file |-> NoData,
             pypdf_text |-> None, pypdf_result |-> None,
             needs_ocr |-> FALSE, page_num |-> 0, all_text |-> <<>>,
             ocr_text |-> None, ocr_result |-> None,
             response |-> NoResponse,
             ocr_calls |-> 0, llm_calls |-> <<>>]

----------------------------------------------------------------------------
(* The body of POST /api/requests and its validation by the pydantic       *)
(* models OrderLine and ProcurementRequest.  FastAPI validates in lax      *)
(* mode: a str field takes a string only, a float or int field takes a     *)
(* number or a string that spells one.  Amounts are whole numbers here.    *)

MaxApiCreates == 2

UpperLetters == <<"A", "B", "C", "D", "E", "F", "G", "H", "I", "J", "K", "L", "M",
                  "N", "O", "P", "Q", "R", "S", "T", "U", "V", "W", "X", "Y", "Z">>
LowerLetters == <<"a", "b", "c", "d", "e", "f", "g", "h", "i", "j", "k", "l", "m",
                  "n", "o", "p", "q", "r", "s", "t", "u", "v", "w", "x", "y", "z">>

IsUpperLetter(ch) == \E i \in 1..26 : UpperLetters[i] = ch

IsDigit(ch) == \E i \in 1..10 : Digit[i] = ch

UpperChar(ch) ==
    IF \E i \in 1..26 : LowerLetters[i] = ch
    THEN UpperLetters[CHOOSE i \in 1..26 : LowerLetters[i] = ch]
    ELSE ch

\* s.upper()
Upper(s) == [i \in 1..Len(s) |-> UpperChar(s[i])]

RECURSIVE Replace(_, _)
\* s.replace(old, "") for a one-character old
Replace(s, old) ==
    IF s = <<>> THEN <<>>
    ELSE IF Head(s) = old THEN Replace(Tail(s), old)
    ELSE <<Head(s)>> \o Replace(Tail(s), old)

\* VAT_ID_PATTERN.match(v):
\*   ^([A-Z]{2}[0-9A-Z]{2,13}|[0-9]{2}-[0-9]{7}|[0-9]{9,12})$
VAT_ID_PATTERN(v) ==
    \/ /\ Len(v) \in 4..15
       /\ IsUpperLetter(v[1]) /\ IsUpperLetter(v[2])
       /\ \A i \in 3..Len(v) : IsDigit(v[i]) \/ IsUpperLetter(v[i])
    \/ /\ Len(v) = 10
       /\ IsDigit(v[1]) /\ IsDigit(v[2])
       /\ v[3] = "-"
       /\ \A i \in 4..10 : IsDigit(v[i])
    \/ /\ Len(v) \in 9..12
       /\ \A i \in 1..Len(v) : IsDigit(v[i])

\* v_clean = v.strip().upper().replace(" ", "")
v_clean(v) == Replace(Upper(Strip(v)), " ")

\* a validator that checks the cleaned value and returns its input
validate_vat_id_ReturnsInput(v) ==
    [ok |-> VAT_ID_PATTERN(v_clean(v)), value |-> v]

\* validate_vat_id: raises ValueError, or returns v_clean
validate_vat_id(v) ==
    [ok |-> VAT_ID_PATTERN(v_clean(v)), value |-> v_clean(v)]

\* the ids of COMMODITY_GROUPS, which the validator's message gives as 001-050
VALID_COMMODITY_IDS ==
    {<<Digit[(n \div 100) + 1], Digit[((n \div 10) % 10) + 1], Digit[(n % 10) + 1]>> :
        n \in 1..50}

\* validate_commodity_group: raises ValueError, or returns v
validate_commodity_group(v) == [ok |-> v \in VALID_COMMODITY_IDS, value |-> v]

\* str = Field(..., min_length=, max_length=)
StrField(x, min_length, max_length) ==
    /\ x.t = "str"
    /\ Len(x.v) >= min_length
    /\ Len(x.v) <= max_length

IsDecimal(chars) == chars # <<>> /\ \A i \in 1..Len(chars) : IsDigit(chars[i])

DigitValue(ch) == (CHOOSE i \in 1..10 : Digit[i] = ch) - 1

RECURSIVE ParseDecimal(_)
ParseDecimal(chars) ==
    IF chars = <<>> THEN 0
    ELSE 10 * ParseDecimal(SubSeq(chars, 1, Len(chars) - 1))
         + DigitValue(chars[Len(chars)])

\* what a float or int field takes: a number, or a string of digits
IsNumber(x) == x.t = "num" \/ (x.t = "str" /\ IsDecimal(x.v))

\* the number the field then holds
ToNumber(x) == IF x.t = "num" THEN x.v ELSE ParseDecimal(x.v)

\* Field(..., gt=0) without the bound
NumberField_NoBound(x, gt) == IsNumber(x)

\* float = Field(..., gt=0), int = Field(..., gt=0)
NumberField(x, gt) == IsNumber(x) /\ ToNumber(x) > gt

\* OrderLine accepts the line
OrderLineValid(line) ==
    /\ StrField(line.description, 1, 500)
    /\ NumberField(line.unit_price, 0)
    /\ NumberField(line.amount, 0)
    /\ StrField(line.unit, 1, 50)
    /\ NumberField(line.total_price, 0)

\* the validated OrderLine as model_dump() gives it
OrderLine(line) ==
    [description |-> line.description,
     unit_price |-> Num(ToNumber(line.unit_price)),
     amount |-> Num(ToNumber(line.amount)),
     unit |-> line.unit,
     total_price |-> Num(ToNumber(line.total_price))]

\* ProcurementRequest accepts the body: the field constraints, then the
\* validators of vat_id and commodity_group_id
ProcurementRequestValid(body) ==
    /\ StrField(body.requestor_name, 1, 200)
    /\ StrField(body.title, 1, 500)
    /\ StrField(body.vendor_name, 1, 200)
    /\ StrField(body.vat_id, 1, 20)
    /\ validate_vat_id(body.vat_id.v).ok
    /\ body.commodity_group_id.t = "str"
    /\ validate_commodity_group(body.commodity_group_id.v).ok
    /\ Len(body.order_lines) >= 1
    /\ \A i \in 1..Len(body.order_lines) : OrderLineValid(body.order_lines[i])
    /\ NumberField(body.total_cost, 0)
    /\ StrField(body.department, 1, 100)

\* request.model_dump() of an accepted body
model_dump(body) ==
    [requestor_name |-> body.requestor_name,
     title |-> body.title,
     vendor_name |-> body.vendor_name,
     vat_id |-> Str(validate_vat_id(body.vat_id.v).value),
     commodity_group_id |-> Str(validate_commodity_group(body.commodity_group_id.v).value),
     order_lines |-> [i \in 1..Len(body.order_lines) |-> OrderLine(body.order_lines[i])],
     total_cost |-> Num(ToNumber(body.total_cost)),
     department |-> body.department]

\* the 422 answer of a body that fails validation
RequestValidationError == [kind |-> "422"]

(* The bodies sent: one that is accepted as it is, and bodies that differ  *)
(* from it in one field or in the order lines                              *)

GoodLine == [description |-> Str(<<"P", "C">>), unit_price |-> Num(50),
             amount |-> Num(2), unit |-> Str(<<"p", "c", "s">>),
             total_price |-> Num(100)]

OtherLine == [description |-> Str(<<"D", "o", "c", "k">>), unit_price |-> Num(7),
              amount |-> Num(1), unit |-> Str(<<"p", "c", "s">>),
              total_price |-> Num(7)]

GoodBody ==
    [requestor_name |-> Str(<<"A", "n", "n">>),
     title |-> Str(<<"P", "C", "s">>),
     vendor_name |-> Str(<<"A", "G">>),
     vat_id |-> Str(<<"D", "E", "1", "2", "3", "4", "5", "6", "7", "8", "9">>),
     commodity_group_id |-> Str(<<"0", "3", "1">>),
     order_lines |-> <<GoodLine>>,
     total_cost |-> Num(100),
     department |-> Str(<<"I", "T">>)]

BodyFields == {"requestor_name", "title", "vendor_name", "vat_id",
               "commodity_group_id", "total_cost", "department"}

BodyAlternatives(field) ==
    CASE field = "vat_id" ->
            {Str(<<" ", "d", "e", " ", "1", "2", "3", "4", "5", "6", "7", "8", "9">>),
             Str(<<"1", "2", "-", "3", "4", "5", "6", "7", "8", "9">>),
             Str(<<"1", "2", "3", "4", "5", "6", "7", "8", "9", "0", "1", "2">>),
             Str(<<"a", "b", "c">>),
             Str(<<>>),
             Str(<<"D", "E", "1", "2", "3", "4", "5", "6", "7", "8", "9",
                   " ", " ", " ", " ", " ", " ", " ", " ", " ", " ">>)}
      [] field = "commodity_group_id" ->
            {Str(<<"0", "5", "1">>), Str(<<"3", "1">>)}
      [] field = "total_cost" ->
            {Num(0), Num(-1), Str(<<"1", "0", "0">>), Str(<<"a", "b", "c">>)}
      [] field = "title" ->
            {Str(<<" ", "P", "C">>), Str(<<>>)}
      [] OTHER -> {}

LineFields == {"unit_price", "amount", "total_price"}

LineAlternatives(field) ==
    IF field = "amount" THEN {Num(0), Num(-1), Str(<<"2">>)} ELSE {Num(0), Num(-1)}

OrderLinesSent ==
    {<<>>, <<GoodLine, OtherLine>>, <<OtherLine, GoodLine>>}
    \cup UNION {{<<OtherLine, [GoodLine EXCEPT ![field] = value]>> :
                    value \in LineAlternatives(field)} : field \in LineFields}

Bodies ==
    {GoodBody}
    \cup UNION {{[GoodBody EXCEPT ![field] = value] : value \in BodyAlternatives(field)} :
                   field \in BodyFields}
    \cup {[GoodBody EXCEPT !.order_lines = lines] : lines \in OrderLinesSent}

----------------------------------------------------------------------------
(* State *)

VARIABLES
    db,        \* committed tables
    wdb,       \* working copy of the connection holding the write lock
    lock,      \* the process whose open transaction holds the write lock, 0 if none
    now,       \* datetime.now()
    pc,        \* position of each process in the function it runs
    frame,     \* arguments and locals of the running call
    result,    \* what the call returned (or raised)
    created,   \* history variable: the creations in the order they committed
    applied,   \* history variable: per id, the targets of the committed status updates
    upload,    \* the locals of extract_document_endpoint and its response
    cached     \* history variable: per file hash, the last committed cache_extraction

storeVars == <<db, wdb, lock, now, pc, frame, result, created, applied, cached>>

vars == <<db, wdb, lock, now, pc, frame, result, created, applied, upload, cached>>

EmptyDb == [procurement_requests |-> <<>>,
            order_lines |-> <<>>,
            status_history |-> <<>>,
            document_cache |-> <<>>]

NoFrame == [op |-> "none", count |-> 0, request_id |-> "", request_data |-> NoData,
            status |-> "", created_at |-> 0, line_no |-> 0,
            row |-> NoRow, order_lines |-> <<>>,
            file_hash |-> "", filename |-> "", extracted_data |-> NoData,
            request_ids |-> <<>>, records |-> <<>>, body |-> NoData]

NoResult == [kind |-> "pending"]
ReturnNone == [kind |-> "None"]
Raised == [kind |-> "error"]

Init ==
    /\ db = EmptyDb
    /\ wdb = EmptyDb
    /\ lock = 0
    /\ now = 0
    /\ pc = [p \in Procs |-> "idle"]
    /\ frame = [p \in Procs |-> NoFrame]
    /\ result = [p \in Procs |-> NoResult]
    /\ created = <<>>
    /\ applied = [id \in AllIds |-> <<>>]
    /\ upload = NoUpload
    /\ cached = [file_hash \in FileHashes |-> NoData]

----------------------------------------------------------------------------
(* SQL helpers *)

HasRequest(d, id) ==
    \E i \in 1..Len(d.procurement_requests) : d.procurement_requests[i].id = id

RequestRow(d, id) ==
    d.procurement_requests[CHOOSE i \in 1..Len(d.procurement_requests) :
                               d.procurement_requests[i].id = id]

HasRequestId(r, id) == r.request_id = id

\* SELECT ... WHERE request_id = ? (ORDER BY id): the rows in rowid order
RowsOf(table, id) ==
    LET Sel[i \in 0..Len(table)] ==
            IF i = 0 THEN <<>>
            ELSE IF HasRequestId(table[i], id) THEN Append(Sel[i - 1], table[i])
            ELSE Sel[i - 1]
    IN Sel[Len(table)]

\* the connection of p may write when no other connection holds the write lock
CanWrite(p) == lock \in {0, p}

\* what the statements of p's connection see
View(p) == IF lock = p THEN wdb ELSE db

\* a connection in autocommit mode: every statement is committed on its own
Write_Autocommit(p, d) ==
    /\ CanWrite(p)
    /\ db' = d
    /\ wdb' = d
    /\ lock' = 0

\* a write statement of p: opens the transaction if none is open
Write(p, d) ==
    /\ CanWrite(p)
    /\ wdb' = d
    /\ lock' = p
    /\ UNCHANGED db

\* get_db, normal exit of the with-body: conn.commit(); conn.close()
get_db_commit(p) ==
    /\ db' = IF lock = p THEN wdb ELSE db
    /\ wdb' = IF lock = p THEN wdb ELSE db
    /\ lock' = IF lock = p THEN 0 ELSE lock

\* a get_db that commits in its finally clause
get_db_rollback_Commit(p) ==
    /\ db' = IF lock = p THEN wdb ELSE db
    /\ wdb' = IF lock = p THEN wdb ELSE db
    /\ lock' = IF lock = p THEN 0 ELSE lock

\* get_db, the with-body raised: conn.close() without commit drops the transaction
get_db_rollback(p) ==
    /\ db' = db
    /\ wdb' = IF lock = p THEN db ELSE wdb
    /\ lock' = IF lock = p THEN 0 ELSE lock

\* datetime.now(): every reading is later than the one before
ReadClock(t) == t = now /\ now' = IF now < MaxClock THEN now + 1 ELSE now

Goto(p, label) == pc' = [pc EXCEPT ![p] = label]
Set(p, f) == frame' = [frame EXCEPT ![p] = f]
Returns(p, r) == result' = [result EXCEPT ![p] = r]

InFlight(op) == Cardinality({q \in Procs : frame[q].op = op /\ pc[q] # "done"})

----------------------------------------------------------------------------
(* create_request *)

StartCreate(p, data, max) ==
    /\ pc[p] = "idle"
    /\ Len(db.procurement_requests) + InFlight("create") < max
    /\ Set(p, [NoFrame EXCEPT !.op = "create", !.request_data = data])
    /\ Goto(p, "next_id")
    /\ UNCHANGED <<db, wdb, lock, now, result, created, applied, upload, cached>>

\* SELECT COUNT(*) as count FROM procurement_requests
CountRequests(d) == Len(d.procurement_requests)

\* the atomic-sequence variant: no two calls in flight are handed the same number
get_next_request_id_Sequence(count) ==
    FormatRequestId(count + 1 +
        Cardinality({q \in Procs : frame[q].op = "create" /\ frame[q].request_id # ""}))

get_next_request_id(count) == FormatRequestId(count + 1)

\* request_id = get_next_request_id(); created_at = datetime.now().isoformat()
GetNextRequestId(p) ==
    /\ pc[p] = "next_id"
    /\ \E t \in 0..MaxClock :
         /\ ReadClock(t)
         /\ Set(p, [frame[p] EXCEPT !.count = CountRequests(db),
                                    !.request_id = get_next_request_id(CountRequests(db)),
                                    !.created_at = t])
    /\ Goto(p, "insert_request")
    /\ UNCHANGED <<db, wdb, lock, result, created, applied, upload, cached>>

NewRequestRow(f) ==
    [id |-> f.request_id,
     requestor_name |-> f.request_data.requestor_name,
     title |-> f.request_data.title,
     vendor_name |-> f.request_data.vendor_name,
     vat_id |-> f.request_data.vat_id,
     commodity_group_id |-> f.request_data.commodity_group_id,
     total_cost |-> f.request_data.total_cost,
     department |-> f.request_data.department,
     status |-> "Open",
     created_at |-> f.created_at]

\* a table whose id column is not a key: the INSERT always adds its row
InsertRequest_NoPrimaryKey(p) ==
    /\ pc[p] = "insert_request"
    /\ Write(p, [View(p) EXCEPT !.procurement_requests =
                     Append(@, NewRequestRow(frame[p]))])
    /\ Set(p, [frame[p] EXCEPT !.line_no = 1])
    /\ Goto(p, IF Len(frame[p].request_data.order_lines) = 0
               THEN "insert_history" ELSE "insert_line")
    /\ UNCHANGED <<now, result, created, applied, upload, cached>>

\* INSERT INTO procurement_requests; id is the PRIMARY KEY
InsertRequest(p) ==
    /\ pc[p] = "insert_request"
    /\ CanWrite(p)
    /\ IF HasRequest(View(p), frame[p].request_id)
       THEN \* sqlite3.IntegrityError leaves the with-body
            /\ get_db_rollback(p)
            /\ Returns(p, Raised)
            /\ Goto(p, "done")
            /\ UNCHANGED frame
       ELSE /\ Write(p, [View(p) EXCEPT !.procurement_requests =
                             Append(@, NewRequestRow(frame[p]))])
            /\ Set(p, [frame[p] EXCEPT !.line_no = 1])
            /\ Goto(p, IF Len(frame[p].request_data.order_lines) = 0
                       THEN "insert_history" ELSE "insert_line")
            /\ UNCHANGED result
    /\ UNCHANGED <<now, created, applied, upload, cached>>

NewOrderLineRow(id, line) ==
    [request_id |-> id, description |-> line.description,
     unit_price |-> line.unit_price, amount |-> line.amount,
     unit |-> line.unit, total_price |-> line.total_price]

\* one iteration of: for line in request_data["order_lines"]: INSERT INTO order_lines
InsertOrderLine(p) ==
    /\ pc[p] = "insert_line"
    /\ LET f == frame[p]
           lines == f.request_data.order_lines
       IN /\ Write(p, [View(p) EXCEPT !.order_lines =
                          Append(@, NewOrderLineRow(f.request_id, lines[f.line_no]))])
          /\ Set(p, [f EXCEPT !.line_no = @ + 1])
          /\ Goto(p, IF f.line_no = Len(lines) THEN "insert_history" ELSE "insert_line")
    /\ UNCHANGED <<now, result, created, applied, upload, cached>>

NewHistoryRow(id, status, timestamp) ==
    [request_id |-> id, status |-> status, timestamp |-> timestamp]

\* a variant that keeps one row per run of equal statuses
InsertHistory_Dedupe(table, row) ==
    LET same == {i \in 1..Len(table) : table[i].request_id = row.request_id}
        last == CHOOSE i \in same : \A j \in same : j <= i
    IN IF same # {} /\ table[last].status = row.status THEN table
       ELSE Append(table, row)

\* a variant that keeps only the latest row of a request
InsertHistory_Replace(table, row) ==
    LET Keep[i \in 0..Len(table)] ==
            IF i = 0 THEN <<>>
            ELSE IF table[i].request_id = row.request_id THEN Keep[i - 1]
            ELSE Append(Keep[i - 1], table[i])
    IN Append(Keep[Len(table)], row)

\* INSERT INTO status_history: the new row gets the next AUTOINCREMENT id
InsertHistory(table, row) == Append(table, row)

\* INSERT INTO status_history (request_id, "Open", created_at)
InsertInitialHistory(p) ==
    /\ pc[p] = "insert_history"
    /\ Write(p, [View(p) EXCEPT !.status_history =
                     InsertHistory(@, NewHistoryRow(frame[p].request_id, "Open",
                                                    frame[p].created_at))])
    /\ Goto(p, "commit_create")
    /\ UNCHANGED <<now, frame, result, created, applied, upload, cached>>

\* end of the with-block of create_request, then return get_request(request_id)
CommitCreate(p) ==
    /\ pc[p] = "commit_create"
    /\ get_db_commit(p)
    /\ created' = Append(created, [id |-> frame[p].request_id,
                                    request_data |-> frame[p].request_data,
                                    created_at |-> frame[p].created_at,
                                    body |-> frame[p].body])
    /\ Goto(p, "select_request")
    /\ UNCHANGED <<now, frame, result, applied, upload, cached>>

\* POST /api/requests: FastAPI validates the body against ProcurementRequest and
\* answers 422 without calling the endpoint when it fails; otherwise
\* db.create_request(request.model_dump())
create_request_endpoint(p, body, max) ==
    /\ pc[p] = "idle"
    /\ Len(db.procurement_requests) + InFlight("create") < max
    /\ IF ProcurementRequestValid(body)
       THEN /\ Set(p, [NoFrame EXCEPT !.op = "create",
                                      !.request_data = model_dump(body),
                                      !.body = body])
            /\ Goto(p, "next_id")
            /\ UNCHANGED result
       ELSE /\ Set(p, [NoFrame EXCEPT !.op = "rejected", !.body = body])
            /\ Returns(p, RequestValidationError)
            /\ Goto(p, "done")
    /\ UNCHANGED <<db, wdb, lock, now, created, applied, upload, cached>>

----------------------------------------------------------------------------
(* get_request: three SELECTs on one connection, no transaction *)

StartGet(p, id) ==
    /\ pc[p] = "idle"
    /\ Set(p, [NoFrame EXCEPT !.op = "get", !.request_id = id])
    /\ Goto(p, "select_request")
    /\ UNCHANGED <<db, wdb, lock, now, result, created, applied, upload, cached>>

\* the value a finished get_request hands to its caller: the caller returns it,
\* or get_all_requests appends it to its list and goes on with the next id
Deliver(p, f, value) ==
    IF f.op = "get_all"
    THEN LET rest == Tail(f.request_ids)
             recs == Append(f.records, value)
         IN IF rest = <<>>
            THEN /\ Set(p, [f EXCEPT !.request_ids = rest, !.records = recs])
                 /\ Returns(p, [kind |-> "list", value |-> recs])
                 /\ Goto(p, "done")
            ELSE /\ Set(p, [f EXCEPT !.request_ids = rest, !.records = recs,
                                     !.request_id = Head(rest)])
                 /\ Goto(p, "select_request")
                 /\ UNCHANGED result
    ELSE /\ Set(p, NoFrame)
         /\ Returns(p, value)
         /\ Goto(p, "done")

\* SELECT * FROM procurement_requests WHERE id = ?; if not row: return None
SelectRequest(p) ==
    /\ pc[p] = "select_request"
    /\ IF HasRequest(db, frame[p].request_id)
       THEN /\ Set(p, [frame[p] EXCEPT !.row = RequestRow(db, frame[p].request_id)])
            /\ Goto(p, "select_lines")
            /\ UNCHANGED result
       ELSE Deliver(p, frame[p], ReturnNone)
    /\ UNCHANGED <<db, wdb, lock, now, created, applied, upload, cached>>

OrderLineOf(r) ==
    [description |-> r.description, unit_price |-> r.unit_price,
     amount |-> r.amount, unit |-> r.unit, total_price |-> r.total_price]

HistoryEntryOf(r) == [status |-> r.status, timestamp |-> r.timestamp]

OrderLinesOf(rows) == [i \in 1..Len(rows) |-> OrderLineOf(rows[i])]

HistoryOf(rows) == [i \in 1..Len(rows) |-> HistoryEntryOf(rows[i])]

\* SELECT * FROM order_lines WHERE request_id = ?
SelectOrderLines(p) ==
    /\ pc[p] = "select_lines"
    /\ Set(p, [frame[p] EXCEPT !.order_lines =
                   OrderLinesOf(RowsOf(db.order_lines, frame[p].request_id))])
    /\ Goto(p, "select_history")
    /\ UNCHANGED <<db, wdb, lock, now, result, created, applied, upload, cached>>

LifecycleRecord(row, order_lines, status_history) ==
    [id |-> row.id,
     data |-> [requestor_name |-> row.requestor_name,
               title |-> row.title,
               vendor_name |-> row.vendor_name,
               vat_id |-> row.vat_id,
               commodity_group_id |-> row.commodity_group_id,
               order_lines |-> order_lines,
               total_cost |-> row.total_cost,
               department |-> row.department],
     status |-> row.status,
     status_history |-> status_history,
     created_at |-> row.created_at]

\* SELECT status, timestamp FROM status_history WHERE request_id = ? ORDER BY id;
\* return the record
SelectHistory(p) ==
    /\ pc[p] = "select_history"
    /\ LET f == frame[p]
           hist == HistoryOf(RowsOf(db.status_history, f.request_id))
       IN Deliver(p, [f EXCEPT !.row = NoRow, !.order_lines = <<>>],
                  [kind |-> "record",
                   value |-> LifecycleRecord(f.row, f.order_lines, hist)])
    /\ UNCHANGED <<db, wdb, lock, now, created, applied, upload, cached>>

\* get_request run against one database state
get_request(d, id) ==
    LifecycleRecord(RequestRow(d, id),
                    OrderLinesOf(RowsOf(d.order_lines, id)),
                    HistoryOf(RowsOf(d.status_history, id)))

----------------------------------------------------------------------------
(* get_all_requests *)

StartGetAll(p) ==
    /\ pc[p] = "idle"
    /\ Set(p, [NoFrame EXCEPT !.op = "get_all"])
    /\ Goto(p, "select_ids")
    /\ UNCHANGED <<db, wdb, lock, now, result, created, applied, upload, cached>>

\* the orders SELECT id ... ORDER BY created_at DESC may produce
IdOrders(d) ==
    LET rows == d.procurement_requests
        n == Len(rows)
    IN { [i \in 1..n |-> rows[perm[i]].id] :
           perm \in { q \in [1..n -> 1..n] :
                        /\ \A i, j \in 1..n : i # j => q[i] # q[j]
                        /\ \A i, j \in 1..n :
                             i < j => rows[q[i]].created_at >= rows[q[j]].created_at } }

SelectIds(p) ==
    /\ pc[p] = "select_ids"
    /\ \E ids \in IdOrders(db) :
         IF ids = <<>>
         THEN /\ Returns(p, [kind |-> "list", value |-> <<>>])
              /\ Goto(p, "done")
              /\ UNCHANGED frame
         ELSE /\ Set(p, [frame[p] EXCEPT !.request_ids = ids, !.request_id = Head(ids)])
              /\ Goto(p, "select_request")
              /\ UNCHANGED result
    /\ UNCHANGED <<db, wdb, lock, now, created, applied, upload, cached>>

----------------------------------------------------------------------------
(* update_request_status *)

StartUpdate(p, id, status, max) ==
    /\ pc[p] = "idle"
    /\ Len(db.status_history) - Len(db.procurement_requests) + InFlight("update")
         < max
    /\ Set(p, [NoFrame EXCEPT !.op = "update", !.request_id = id, !.status = status])
    /\ Goto(p, "check_exists")
    /\ UNCHANGED <<db, wdb, lock, now, result, created, applied, upload, cached>>

\* a variant without the existence check
CheckExists_NoCheck(p) ==
    /\ pc[p] = "check_exists"
    /\ Goto(p, "update_status")
    /\ UNCHANGED <<db, wdb, lock, now, frame, result, created, applied, upload, cached>>

\* a variant that enforces Closed as a terminal status
CheckExists_Terminal(p) ==
    /\ pc[p] = "check_exists"
    /\ IF HasRequest(db, frame[p].request_id)
          /\ RequestRow(db, frame[p].request_id).status # "Closed"
       THEN /\ Goto(p, "update_status")
            /\ UNCHANGED result
       ELSE /\ Returns(p, ReturnNone)
            /\ Goto(p, "done")
    /\ UNCHANGED <<db, wdb, lock, now, frame, created, applied, upload, cached>>

\* SELECT id FROM procurement_requests WHERE id = ?; if not found: return None
CheckExists(p) ==
    /\ pc[p] = "check_exists"
    /\ IF HasRequest(db, frame[p].request_id)
       THEN /\ Goto(p, "update_status")
            /\ UNCHANGED result
       ELSE /\ Returns(p, ReturnNone)
            /\ Goto(p, "done")
    /\ UNCHANGED <<db, wdb, lock, now, frame, created, applied, upload, cached>>

SetStatus(rows, id, status) ==
    [i \in 1..Len(rows) |->
        IF rows[i].id = id THEN [rows[i] EXCEPT !.status = status] ELSE rows[i]]

\* UPDATE procurement_requests SET status = ? WHERE id = ?
UpdateStatus(p) ==
    /\ pc[p] = "update_status"
    /\ Write(p, [View(p) EXCEPT !.procurement_requests =
                     SetStatus(@, frame[p].request_id, frame[p].status)])
    /\ Goto(p, "append_history")
    /\ UNCHANGED <<now, frame, result, created, applied, upload, cached>>

\* INSERT INTO status_history (request_id, status, datetime.now().isoformat())
AppendHistory(p) ==
    /\ pc[p] = "append_history"
    /\ \E t \in 0..MaxClock :
         /\ ReadClock(t)
         /\ Write(p, [View(p) EXCEPT !.status_history =
                          InsertHistory(@, NewHistoryRow(frame[p].request_id,
                                                         frame[p].status, t))])
    /\ Goto(p, "commit_update")
    /\ UNCHANGED <<frame, result, created, applied, upload, cached>>

\* end of the with-block of update_request_status, then return get_request(request_id)
CommitUpdate(p) ==
    /\ pc[p] = "commit_update"
    /\ get_db_commit(p)
    /\ applied' = [applied EXCEPT ![frame[p].request_id] = Append(@, frame[p].status)]
    /\ Goto(p, "select_request")
    /\ UNCHANGED <<now, frame, result, created, upload, cached>>

----------------------------------------------------------------------------
(* document cache *)

StartCacheExtraction(p, file_hash, filename, extracted_data) ==
    /\ pc[p] = "idle"
    /\ Set(p, [NoFrame EXCEPT !.op = "cache", !.file_hash = file_hash,
                              !.filename = filename,
                              !.extracted_data = extracted_data])
    /\ Goto(p, "replace_cache")
    /\ UNCHANGED <<db, wdb, lock, now, result, created, applied, upload, cached>>

HasOtherHash(r, file_hash) == r.file_hash # file_hash

\* a plain INSERT: the row of the same hash stays
WithoutHash_KeepAll(table, file_hash) == table

WithoutHash(table, file_hash) ==
    LET Sel[i \in 0..Len(table)] ==
            IF i = 0 THEN <<>>
            ELSE IF HasOtherHash(table[i], file_hash) THEN Append(Sel[i - 1], table[i])
            ELSE Sel[i - 1]
    IN Sel[Len(table)]

\* INSERT OR REPLACE INTO document_cache; file_hash is the PRIMARY KEY
ReplaceCache(p) ==
    /\ pc[p] = "replace_cache"
    /\ \E t \in 0..MaxClock :
         /\ ReadClock(t)
         /\ Write(p, [View(p) EXCEPT !.document_cache =
                Append(WithoutHash(@, frame[p].file_hash),
                       [file_hash |-> frame[p].file_hash,
                        filename |-> frame[p].filename,
                        extracted_data |-> json_dumps(frame[p].extracted_data),
                        created_at |-> t])])
    /\ Goto(p, "commit_cache")
    /\ UNCHANGED <<frame, result, created, applied, upload, cached>>

CommitCache(p) ==
    /\ pc[p] = "commit_cache"
    /\ get_db_commit(p)
    /\ cached' = [cached EXCEPT ![frame[p].file_hash] =
                      [filename |-> frame[p].filename,
                       extracted_data |-> frame[p].extracted_data]]
    /\ Returns(p, ReturnNone)
    /\ Goto(p, "done")
    /\ UNCHANGED <<now, frame, created, applied, upload>>

StartGetCached(p, file_hash) ==
    /\ pc[p] = "idle"
    /\ Set(p, [NoFrame EXCEPT !.op = "get_cached", !.file_hash = file_hash])
    /\ Goto(p, "select_cache")
    /\ UNCHANGED <<db, wdb, lock, now, result, created, applied, upload, cached>>

\* SELECT extracted_data FROM document_cache WHERE file_hash = ?
SelectCache(p) ==
    /\ pc[p] = "select_cache"
    /\ LET hits == {i \in 1..Len(db.document_cache) :
                       db.document_cache[i].file_hash = frame[p].file_hash}
       IN Returns(p, IF hits = {} THEN ReturnNone
                     ELSE [kind |-> "data",
                           value |-> json_loads(db.document_cache[CHOOSE i \in hits : TRUE]
                                                    .extracted_data)])
    /\ Goto(p, "done")
    /\ UNCHANGED <<db, wdb, lock, now, frame, created, applied, upload, cached>>

----------------------------------------------------------------------------
(* failures and returns *)

\* the statements that can raise inside a with get_db() block that writes
\* (disk error, "database is locked" after the busy timeout)
WriteSteps == {"insert_request", "insert_line", "insert_history", "commit_create",
               "update_status", "append_history", "commit_update",
               "replace_cache", "commit_cache"}

\* an exception leaves the with-body: get_db closes the connection without commit
Raise(p) ==
    /\ pc[p] \in WriteSteps
    /\ get_db_rollback(p)
    /\ Returns(p, Raised)
    /\ Goto(p, "done")
    /\ UNCHANGED <<now, frame, created, applied, upload, cached>>

\* the caller has the result; the worker takes the next call
Return(p) ==
    /\ pc[p] = "done"
    /\ Set(p, NoFrame)
    /\ Returns(p, NoResult)
    /\ Goto(p, "idle")
    /\ UNCHANGED <<db, wdb, lock, now, created, applied, upload, cached>>

----------------------------------------------------------------------------
(* extract_document_endpoint: POST /api/extract-document *)

HTTPException(status_code, detail) ==
    [status |-> status_code, body |-> [t |-> "detail", v |-> detail]]

\* an exception no handler of the route catches
InternalServerError == [status |-> 500, body |-> [t |-> "detail", v |-> "Internal Server Error"]]

Respond(u, response) == [u EXCEPT !.pc = "responded", !.response = response]

ReceiveUpload(file) ==
    /\ upload.pc = "idle"
    /\ upload' = [NoUpload EXCEPT !.pc = "validate", !.file = file]
    /\ UNCHANGED storeVars

ValidateUpload ==
    /\ upload.pc = "validate"
    /\ LET file == upload.file
       IN upload' =
              IF \/ ~Truthy(file.filename)
                 \/ ~EndsWith(Lower(file.filename.v), <<".", "p", "d", "f">>)
              THEN Respond(upload, HTTPException(400, "Only PDF files are allowed"))
              ELSE IF file.size > MAX_PDF_SIZE_BYTES
              THEN Respond(upload, HTTPException(400,
                       "File too large. Maximum size is "
                           \o Decimal(MAX_PDF_SIZE_BYTES \div (1024 * 1024)) \o " MB"))
              ELSE [upload EXCEPT !.pc = "pypdf_text"]
    /\ UNCHANGED storeVars

\* page.extract_text() or ""
PageText(outcome) == IF Truthy(outcome) THEN outcome.v ELSE <<>>

ExtractPypdfText ==
    /\ upload.pc = "pypdf_text"
    /\ LET file == upload.file
       IN upload' =
              IF \/ ~file.readable
                 \/ \E i \in 1..Len(file.pages) : file.pages[i] = PageRaises
              THEN Respond(upload, InternalServerError)
              ELSE [upload EXCEPT
                       !.pypdf_text =
                           Str(Concat([i \in 1..Len(file.pages) |-> PageText(file.pages[i])])),
                       !.pc = "pypdf_extract"]
    /\ UNCHANGED storeVars

LlmCall(source, text, raised) == [source |-> source, text |-> text, raised |-> raised]

ExtractFromPypdf ==
    /\ upload.pc = "pypdf_extract"
    /\ IF Strip(upload.pypdf_text.v) # <<>>
       THEN \/ \E answer \in PypdfAnswers :
                  upload' = [upload EXCEPT
                      !.pypdf_result = Dict(answer),
                      !.llm_calls = Append(@, LlmCall("pypdf", upload.pypdf_text.v, FALSE)),
                      !.pc = "quality_gate"]
            \/ upload' = [upload EXCEPT
                      !.llm_calls = Append(@, LlmCall("pypdf", upload.pypdf_text.v, TRUE)),
                      !.pc = "quality_gate"]
       ELSE upload' = [upload EXCEPT !.pc = "quality_gate"]
    /\ UNCHANGED storeVars

\* a gate that always asks for the OCR pass
needs_ocr_Always(pypdf_result) == TRUE

needs_ocr(pypdf_result) ==
    IF ~Truthy(pypdf_result) THEN TRUE
    ELSE LET vat_id == Strip(PyStr(Get(pypdf_result.v, "vat_id", Str(<<>>))))
             vendor_name == Strip(PyStr(Get(pypdf_result.v, "vendor_name", Str(<<>>))))
             department == Strip(PyStr(Get(pypdf_result.v, "department", Str(<<>>))))
             title == Strip(PyStr(Get(pypdf_result.v, "title", Str(<<>>))))
             order_lines == Get(pypdf_result.v, "order_lines", List(<<>>))
         IN IF vat_id = <<>> THEN TRUE
            ELSE IF vendor_name = <<>> THEN TRUE
            ELSE IF department = <<>> THEN TRUE
            ELSE IF title = <<>> THEN TRUE
            ELSE IF ~Truthy(order_lines) \/ Len(order_lines.v) = 0 THEN TRUE
            ELSE FALSE

QualityGate ==
    /\ upload.pc = "quality_gate"
    /\ LET needs == needs_ocr(upload.pypdf_result)
       IN upload' = [upload EXCEPT !.needs_ocr = needs,
                                   !.pc = IF needs THEN "ocr_open" ELSE "results"]
    /\ UNCHANGED storeVars

\* an OCR block without the except branch that keeps candidate A
OcrFailed_AlwaysFails(u) ==
    Respond(u, HTTPException(400,
        "Could not extract text from PDF. PyPDF2 and OCR both failed."))

\* except Exception of the OCR block
OcrFailed(u) ==
    IF ~Truthy(u.pypdf_result)
    THEN Respond(u, HTTPException(400,
             "Could not extract text from PDF. PyPDF2 and OCR both failed."))
    ELSE [u EXCEPT !.pc = "results"]

OcrOpen ==
    /\ upload.pc = "ocr_open"
    /\ LET called == [upload EXCEPT !.ocr_calls = @ + 1]
       IN \/ upload' = [called EXCEPT !.all_text = <<>>, !.page_num = 0,
                                      !.pc = "ocr_page"]
          \/ upload' = OcrFailed(called)
    /\ UNCHANGED storeVars

\* what the vision model reads on a page
OcrReplies(page_num) == {<<"p", Digit[page_num + 1]>>, <<>>}

\* a page loop that goes on to the next page when a model call fails
OcrPage_SkipFailed ==
    /\ upload.pc = "ocr_page"
    /\ upload.page_num < Len(upload.file.pages)
    /\ \/ \E content \in OcrReplies(upload.page_num + 1) :
              upload' = [upload EXCEPT !.all_text = Append(@, content),
                                       !.page_num = @ + 1]
       \/ upload' = [upload EXCEPT !.page_num = @ + 1]
    /\ UNCHANGED storeVars

OcrPage ==
    /\ upload.pc = "ocr_page"
    /\ upload.page_num < Len(upload.file.pages)
    /\ \/ \E content \in OcrReplies(upload.page_num + 1) :
              upload' = [upload EXCEPT !.all_text = Append(@, content),
                                       !.page_num = @ + 1]
       \/ upload' = OcrFailed(upload)
    /\ UNCHANGED storeVars

PAGE_BREAK == <<"\n", "\n", "=", "=", "=", " ", "P", "A", "G", "E", " ",
                "B", "R", "E", "A", "K", " ", "=", "=", "=", "\n", "\n">>

OcrJoin ==
    /\ upload.pc = "ocr_page"
    /\ upload.page_num = Len(upload.file.pages)
    /\ upload' = [upload EXCEPT !.ocr_text = Str(Join(PAGE_BREAK, upload.all_text)),
                                !.pc = "ocr_extract"]
    /\ UNCHANGED storeVars

ExtractFromOcr ==
    /\ upload.pc = "ocr_extract"
    /\ \/ \E answer \in OcrAnswers :
              upload' = [upload EXCEPT
                  !.ocr_result = Dict(answer),
                  !.llm_calls = Append(@, LlmCall("ocr", upload.ocr_text.v, FALSE)),
                  !.pc = "results"]
       \/ upload' = OcrFailed([upload EXCEPT
                  !.llm_calls = Append(@, LlmCall("ocr", upload.ocr_text.v, TRUE))])
    /\ UNCHANGED storeVars

\* str(v).strip() if v else ''
StripOrEmpty(v) == IF Truthy(v) THEN Strip(PyStr(v)) ELSE <<>>

\* order_lines compared with > instead of >=
MergeField_OcrLinesOnTie(field, pypdf_val, ocr_val) ==
    IF field = "order_lines"
    THEN LET pypdf_lines == IF pypdf_val.t = "list" THEN pypdf_val.v ELSE <<>>
             ocr_lines == IF ocr_val.t = "list" THEN ocr_val.v ELSE <<>>
         IN List(IF Len(pypdf_lines) > Len(ocr_lines) THEN pypdf_lines ELSE ocr_lines)
    ELSE IF field \in {"vendor_name", "department"}
    THEN IF StripOrEmpty(ocr_val) # <<>> THEN ocr_val ELSE pypdf_val
    ELSE LET pypdf_str == StripOrEmpty(pypdf_val)
             ocr_str == StripOrEmpty(ocr_val)
         IN IF pypdf_str = <<>> /\ ocr_str # <<>> THEN ocr_val
            ELSE IF ocr_str = <<>> /\ pypdf_str # <<>> THEN pypdf_val
            ELSE IF Len(ocr_str) > Len(pypdf_str) THEN ocr_val
            ELSE pypdf_val

\* vendor_name and department merged like the other fields
MergeField_LongerVendor(field, pypdf_val, ocr_val) ==
    IF field = "order_lines"
    THEN LET pypdf_lines == IF pypdf_val.t = "list" THEN pypdf_val.v ELSE <<>>
             ocr_lines == IF ocr_val.t = "list" THEN ocr_val.v ELSE <<>>
         IN List(IF Len(pypdf_lines) >= Len(ocr_lines) THEN pypdf_lines ELSE ocr_lines)
    ELSE LET pypdf_str == StripOrEmpty(pypdf_val)
             ocr_str == StripOrEmpty(ocr_val)
         IN IF pypdf_str = <<>> /\ ocr_str # <<>> THEN ocr_val
            ELSE IF ocr_str = <<>> /\ pypdf_str # <<>> THEN pypdf_val
            ELSE IF Len(ocr_str) > Len(pypdf_str) THEN ocr_val
            ELSE pypdf_val

MergeField(field, pypdf_val, ocr_val) ==
    IF field = "order_lines"
    THEN LET pypdf_lines == IF pypdf_val.t = "list" THEN pypdf_val.v ELSE <<>>
             ocr_lines == IF ocr_val.t = "list" THEN ocr_val.v ELSE <<>>
         IN List(IF Len(pypdf_lines) >= Len(ocr_lines) THEN pypdf_lines ELSE ocr_lines)
    ELSE IF field \in {"vendor_name", "department"}
    THEN IF StripOrEmpty(ocr_val) # <<>> THEN ocr_val ELSE pypdf_val
    ELSE LET pypdf_str == StripOrEmpty(pypdf_val)
             ocr_str == StripOrEmpty(ocr_val)
         IN IF pypdf_str = <<>> /\ ocr_str # <<>> THEN ocr_val
            ELSE IF ocr_str = <<>> /\ pypdf_str # <<>> THEN pypdf_val
            ELSE IF Len(ocr_str) > Len(pypdf_str) THEN ocr_val
            ELSE pypdf_val

\* a merge whose vendor_name follows the candidate that won order_lines
Merge_VendorFollowsLines(pypdf_result, ocr_result) ==
    Dict([field \in DOMAIN pypdf_result.v \cup DOMAIN ocr_result.v |->
             IF field = "vendor_name"
             THEN IF MergeField("order_lines",
                                Get(pypdf_result.v, "order_lines", Str(<<>>)),
                                Get(ocr_result.v, "order_lines", Str(<<>>)))
                         = Get(ocr_result.v, "order_lines", Str(<<>>))
                  THEN Get(ocr_result.v, field, Str(<<>>))
                  ELSE Get(pypdf_result.v, field, Str(<<>>))
             ELSE MergeField(field, Get(pypdf_result.v, field, Str(<<>>)),
                                    Get(ocr_result.v, field, Str(<<>>)))])

Merge(pypdf_result, ocr_result) ==
    Dict([field \in DOMAIN pypdf_result.v \cup DOMAIN ocr_result.v |->
             MergeField(field, Get(pypdf_result.v, field, Str(<<>>)),
                               Get(ocr_result.v, field, Str(<<>>)))])

Results(u) ==
    (IF Truthy(u.pypdf_result) THEN <<[src |-> "pypdf", r |-> u.pypdf_result]>> ELSE <<>>)
    \o (IF Truthy(u.ocr_result) THEN <<[src |-> "ocr", r |-> u.ocr_result]>> ELSE <<>>)

\* a route without the check for an empty result list
ReturnResult_EmptyOk ==
    /\ upload.pc = "results"
    /\ LET results == Results(upload)
       IN upload' =
              IF Len(results) <= 1
              THEN Respond(upload, [status |-> 200,
                                    body |-> IF results = <<>> THEN Dict(<<>>)
                                             ELSE results[1].r])
              ELSE Respond(upload, [status |-> 200,
                                    body |-> Merge(upload.pypdf_result, upload.ocr_result)])
    /\ UNCHANGED storeVars

ReturnResult ==
    /\ upload.pc = "results"
    /\ LET results == Results(upload)
       IN upload' =
              IF results = <<>>
              THEN Respond(upload, HTTPException(400, "Could not extract data from PDF"))
              ELSE IF Len(results) = 1
              THEN Respond(upload, [status |-> 200, body |-> results[1].r])
              ELSE Respond(upload, [status |-> 200,
                                    body |-> Merge(upload.pypdf_result, upload.ocr_result)])
    /\ UNCHANGED storeVars

CompleteUpload ==
    /\ upload.pc = "responded"
    /\ upload' = [NoUpload EXCEPT !.response = upload.response]
    /\ UNCHANGED storeVars

----------------------------------------------------------------------------
(* cache_extraction and get_cached_extraction called on two worker         *)
(* processes at once                                                       *)

CacheNext ==
    \E p \in Procs :
        \/ \E file_hash \in FileHashes, filename \in CacheFilenames,
              extracted_data \in Extractions :
              StartCacheExtraction(p, file_hash, filename, extracted_data)
        \/ ReplaceCache(p)
        \/ CommitCache(p)
        \/ \E file_hash \in FileHashes : StartGetCached(p, file_hash)
        \/ SelectCache(p)
        \/ Raise(p)
        \/ Return(p)

CacheSpec == Init /\ [][CacheNext]_vars

----------------------------------------------------------------------------
(* one upload at a time: the route shares no state between uploads *)

UploadNext ==
    \/ \E file \in Files : ReceiveUpload(file)
    \/ ValidateUpload
    \/ ExtractPypdfText
    \/ ExtractFromPypdf
    \/ QualityGate
    \/ OcrOpen
    \/ OcrPage
    \/ OcrJoin
    \/ ExtractFromOcr
    \/ ReturnResult
    \/ CompleteUpload

UploadSpec == Init /\ [][UploadNext]_vars

----------------------------------------------------------------------------
(* update_request_status called on two worker processes at once, next to   *)
(* create_request on the first; each call ends with its get_request.       *)
(* Creations on both workers at once are CreateSpec's.                     *)

Next ==
    \E p \in Procs :
        \/ (p = 1 /\ StartCreate(p, Payload1, MaxRequests))
        \/ GetNextRequestId(p)
        \/ InsertRequest(p)
        \/ InsertOrderLine(p)
        \/ InsertInitialHistory(p)
        \/ CommitCreate(p)
        \/ SelectRequest(p)
        \/ SelectOrderLines(p)
        \/ SelectHistory(p)
        \/ \E id \in RequestIds, status \in Statuses :
              StartUpdate(p, id, status, MaxUpdates)
        \/ CheckExists(p)
        \/ UpdateStatus(p)
        \/ AppendHistory(p)
        \/ CommitUpdate(p)
        \/ Raise(p)
        \/ Return(p)

Spec == Init /\ [][Next]_vars

----------------------------------------------------------------------------
(* create_request called on two worker processes at once *)

CreateNext ==
    \E p \in Procs :
        \/ \E data \in Payloads : StartCreate(p, data, MaxCreates)
        \/ GetNextRequestId(p)
        \/ InsertRequest(p)
        \/ InsertOrderLine(p)
        \/ InsertInitialHistory(p)
        \/ CommitCreate(p)
        \/ SelectRequest(p)
        \/ SelectOrderLines(p)
        \/ SelectHistory(p)
        \/ Raise(p)
        \/ Return(p)

CreateSpec == Init /\ [][CreateNext]_vars

----------------------------------------------------------------------------
(* Every database function, called on one worker: the async endpoints of   *)
(* a single server process run their database calls one after the other    *)

FullNext ==
    \/ StartCreate(1, Payload1, MaxCreates)
    \/ GetNextRequestId(1)
    \/ InsertRequest(1)
    \/ InsertOrderLine(1)
    \/ InsertInitialHistory(1)
    \/ CommitCreate(1)
    \/ \E id \in RequestIds : StartGet(1, id)
    \/ SelectRequest(1)
    \/ SelectOrderLines(1)
    \/ SelectHistory(1)
    \/ StartGetAll(1)
    \/ SelectIds(1)
    \/ \E id \in RequestIds, status \in Statuses :
          StartUpdate(1, id, status, MaxFullUpdates)
    \/ CheckExists(1)
    \/ UpdateStatus(1)
    \/ AppendHistory(1)
    \/ CommitUpdate(1)
    \/ \E fn \in Filenames, e \in Extractions : StartCacheExtraction(1, "h1", fn, e)
    \/ ReplaceCache(1)
    \/ CommitCache(1)
    \/ StartGetCached(1, "h1")
    \/ SelectCache(1)
    \/ Raise(1)
    \/ Return(1)

FullSpec == Init /\ [][FullNext]_vars

----------------------------------------------------------------------------
(* Creations one at a time *)

SeqNext ==
    \/ StartCreate(1, Payload2, MaxSeqCreates)
    \/ GetNextRequestId(1)
    \/ InsertRequest(1)
    \/ InsertOrderLine(1)
    \/ InsertInitialHistory(1)
    \/ CommitCreate(1)
    \/ SelectRequest(1)
    \/ SelectOrderLines(1)
    \/ SelectHistory(1)
    \/ Raise(1)
    \/ Return(1)

SeqSpec == Init /\ [][SeqNext]_vars

----------------------------------------------------------------------------
(* The create endpoint and the read endpoint, called one after the other   *)

ApiNext ==
    \/ \E body \in Bodies : create_request_endpoint(1, body, MaxApiCreates)
    \/ GetNextRequestId(1)
    \/ InsertRequest(1)
    \/ InsertOrderLine(1)
    \/ InsertInitialHistory(1)
    \/ CommitCreate(1)
    \/ \E id \in RequestIds : StartGet(1, id)
    \/ SelectRequest(1)
    \/ SelectOrderLines(1)
    \/ SelectHistory(1)
    \/ Raise(1)
    \/ Return(1)

ApiSpec == Init /\ [][ApiNext]_vars

----------------------------------------------------------------------------
(* Properties of the request store *)

StoredIds(d) == {d.procurement_requests[i].id : i \in 1..Len(d.procurement_requests)}

StatusesOf(history) == [i \in 1..Len(history) |-> history[i].status]

IsPrefix(s, t) == Len(s) <= Len(t) /\ \A i \in 1..Len(s) : s[i] = t[i]

\* worker p takes a step
Steps(p) == pc'[p] # pc[p] \/ frame'[p] # frame[p]

\* C1 (state part): for every stored request, get_request run on the committed
\* database reports the history [Open, s1, ..., sk] of the k status updates
\* committed for it so far, k + 1 entries, and the status sk (Open when k = 0).
C1_Stored ==
    \A id \in StoredIds(db) :
        LET r == get_request(db, id)
            expected == <<"Open">> \o applied[id]
        IN /\ Len(r.status_history) = Len(applied[id]) + 1
           /\ StatusesOf(r.status_history) = expected
           /\ r.status = expected[Len(expected)]

\* C1 (step part): a get_request call whose SELECTs were not overtaken by a
\* commit on the same request returns exactly that record.
C1_Returned ==
    \A p \in Procs :
        (/\ pc[p] = "select_history"
         /\ pc'[p] = "done"
         /\ frame[p].row = RequestRow(db, frame[p].request_id))
        => LET r == result'[p].value
               expected == <<"Open">> \o applied[r.id]
           IN /\ result'[p].kind = "record"
              /\ r.id = frame[p].request_id
              /\ Len(r.status_history) = Len(applied[r.id]) + 1
              /\ StatusesOf(r.status_history) = expected
              /\ r.status = expected[Len(expected)]

\* C1: after create_request and k successful update_request_status calls with
\* targets s1..sk, get_request returns a status_history of exactly k + 1 entries
\* with statuses [Open, s1, ..., sk] in that order and the status sk.
C1_HistoryFollowsUpdates == []C1_Stored /\ [][C1_Returned]_vars

\* a call has returned the record of a request after two updates, In Progress then Closed
C1_Witness ==
    \E p \in Procs :
        /\ pc[p] = "done"
        /\ result[p].kind = "record"
        /\ StatusesOf(result[p].value.status_history) = <<"Open", "In Progress", "Closed">>
        /\ result[p].value.status = "Closed"
        /\ applied[result[p].value.id] = <<"In Progress", "Closed">>

\* C2: status updates are atomic.  In every committed state of the database, the
\* one every SELECT of every reader sees, each request's status equals the status
\* of the last row of its status history, whatever the interleaving of updates on
\* two workers and wherever an update raises.
C2_StatusMatchesHistory ==
    \A i \in 1..Len(db.procurement_requests) :
        LET row == db.procurement_requests[i]
            mine == {j \in 1..Len(db.status_history) :
                        db.status_history[j].request_id = row.id}
        IN /\ mine # {}
           /\ \E j \in mine :
                /\ \A k \in mine : k <= j
                /\ db.status_history[j].status = row.status

\* an update raised after its UPDATE statement changed the status and before its
\* history row was inserted, while the other worker is in the middle of an update
C2_Witness ==
    \E p, q \in Procs :
        /\ p # q
        /\ pc[p] = "done" /\ result[p] = Raised
        /\ frame[p].op = "update"
        /\ frame[p].request_id \in StoredIds(db)
        /\ frame[p].status # RequestRow(db, frame[p].request_id).status
        /\ frame[q].op = "update" /\ frame[q].request_id = frame[p].request_id
        /\ pc[q] = "append_history" /\ lock = q

\* C3: request creation is atomic.  In every committed state a request row exists
\* only together with exactly the order lines submitted for it, in the submitted
\* order, and with the initial history row {Open, created_at}; no order line and
\* no history row exists without its request row, so a creation that raised has
\* left nothing behind.
C3_CreationAtomic ==
    /\ \A i \in 1..Len(db.procurement_requests) :
         LET row == db.procurement_requests[i]
             made == {n \in 1..Len(created) : created[n].id = row.id}
             lines == RowsOf(db.order_lines, row.id)
             hist == RowsOf(db.status_history, row.id)
         IN /\ Cardinality(made) = 1
            /\ \A n \in made :
                 /\ Len(lines) = Len(created[n].request_data.order_lines)
                 /\ \A k \in 1..Len(lines) :
                      /\ lines[k].description = created[n].request_data.order_lines[k].description
                      /\ lines[k].unit_price = created[n].request_data.order_lines[k].unit_price
                      /\ lines[k].amount = created[n].request_data.order_lines[k].amount
                      /\ lines[k].unit = created[n].request_data.order_lines[k].unit
                      /\ lines[k].total_price = created[n].request_data.order_lines[k].total_price
            /\ Len(hist) >= 1
            /\ hist[1].status = "Open"
            /\ hist[1].timestamp = row.created_at
    /\ Len(db.procurement_requests) = Len(created)
    /\ \A k \in 1..Len(db.order_lines) :
         db.order_lines[k].request_id \in StoredIds(db)
    /\ \A k \in 1..Len(db.status_history) :
         db.status_history[k].request_id \in StoredIds(db)

\* a create_request call raised after it had inserted its request row and one of
\* its order lines
C3_Witness ==
    \E p \in Procs :
        /\ pc[p] = "done" /\ result[p] = Raised
        /\ frame[p].op = "create"
        /\ frame[p].line_no = 2
        /\ frame[p].request_id \notin StoredIds(db)

\* C4 (step): what one step of any database function may do to a stored request
C4_Step ==
    db' # db =>
    \A i \in 1..Len(db.procurement_requests) :
        LET old == db.procurement_requests[i]
        IN /\ i <= Len(db'.procurement_requests)
           /\ LET new == db'.procurement_requests[i]
              IN /\ new.id = old.id
                 /\ new.created_at = old.created_at
                 /\ new.requestor_name = old.requestor_name
                 /\ new.title = old.title
                 /\ new.vendor_name = old.vendor_name
                 /\ new.vat_id = old.vat_id
                 /\ new.commodity_group_id = old.commodity_group_id
                 /\ new.total_cost = old.total_cost
                 /\ new.department = old.department
           /\ RowsOf(db'.order_lines, old.id) = RowsOf(db.order_lines, old.id)
           /\ IsPrefix(RowsOf(db.status_history, old.id),
                       RowsOf(db'.status_history, old.id))

\* C4: the status history is append-only and a stored request is immutable except
\* for its status.  Across every step of create_request, update_request_status,
\* get_request, get_all_requests, cache_extraction and get_cached_extraction,
\* every stored request stays stored with the same id, created_at, data fields
\* and order lines, and its old status history is a prefix of its new one.
C4_AppendOnly == [][C4_Step]_vars

\* two requests are stored, one has been updated, the cache has a row, and
\* get_all_requests has returned both records
C4_Witness ==
    /\ Len(db.procurement_requests) = 2
    /\ \E id \in StoredIds(db) : Len(applied[id]) = 1
    /\ Len(db.document_cache) = 1
    /\ pc[1] = "done"
    /\ result[1].kind = "list"
    /\ Len(result[1].value) = 2

ExpectedIds == <<"REQ-0001", "REQ-0002", "REQ-0003", "REQ-0004", "REQ-0005",
                 "REQ-0006", "REQ-0007", "REQ-0008", "REQ-0009", "REQ-0010",
                 "REQ-0011", "REQ-0012", "REQ-0013">>

\* C5: with creations one at a time and no deletions, the Nth successful
\* create_request stores and returns the id REQ- followed by N zero-padded to
\* four digits; the ids follow the creation order and none is used twice.
C5_SequentialIds ==
    /\ \A n \in 1..Len(created) :
         /\ created[n].id = ExpectedIds[n]
         /\ db.procurement_requests[n].id = ExpectedIds[n]
    /\ \A m, n \in 1..Len(created) : m # n => created[m].id # created[n].id
    /\ \A p \in Procs :
         (pc[p] = "done" /\ result[p].kind = "record")
         => result[p].value.id = ExpectedIds[Len(created)]

\* the eleventh creation has returned REQ-0011
C5_Witness ==
    /\ Len(created) >= 11
    /\ created[11].id = "REQ-0011"
    /\ pc[1] = "done"
    /\ result[1].kind = "record"
    /\ result[1].value.id = "REQ-0011"

\* C6: the row-count id scheme is not safe under concurrent creation.  Two
\* create_request calls that read the same row count hold the same request id,
\* since nothing but the count goes into the id, and both can have read it
\* before either inserts (the witness).
C6_SameCountSameId ==
    \A p, q \in Procs :
        (/\ frame[p].op = "create" /\ frame[q].op = "create"
         /\ frame[p].request_id # "" /\ frame[q].request_id # ""
         /\ frame[p].count = frame[q].count)
        => frame[p].request_id = frame[q].request_id

\* the race: both calls have counted the rows before either has inserted, and
\* both hold the same id
C6_Witness ==
    \E p, q \in Procs :
        /\ p # q
        /\ pc[p] = "insert_request" /\ pc[q] = "insert_request"
        /\ frame[p].count = frame[q].count
        /\ frame[p].request_id = frame[q].request_id
        /\ frame[p].request_id \notin StoredIds(db)
        /\ lock = 0

\* the status-update endpoint: if not result: raise HTTPException(404)
update_status(r) == IF r.kind = "None" THEN 404 ELSE 200

\* C7: update_request_status with an id that is not stored returns None, which
\* the endpoint turns into 404, and changes nothing: no table of the committed
\* database and no open transaction is touched.
C7_Step ==
    \A p \in Procs :
        (/\ pc[p] = "check_exists"
         /\ frame[p].request_id \notin StoredIds(db)
         /\ Steps(p))
        => /\ pc'[p] = "done"
           /\ result'[p] = ReturnNone
           /\ update_status(result'[p]) = 404
           /\ db' = db
           /\ wdb' = wdb
           /\ lock' = lock

C7_UnknownIdChangesNothing == [][C7_Step]_vars

\* an update of an unknown id has returned None while another request is stored
C7_Witness ==
    \E p \in Procs :
        /\ pc[p] = "done"
        /\ frame[p].op = "update"
        /\ result[p] = ReturnNone
        /\ frame[p].request_id \notin StoredIds(db)
        /\ StoredIds(db) # {}

\* C8: no transition matrix.  An update of a stored request is never turned away
\* by the existence check, whatever its current status s and its target t
\* (s = t and s = Closed included), and when it commits the status is t and
\* exactly one history row with status t has been appended for the request.
C8_Step ==
    \A p \in Procs :
        /\ (/\ pc[p] = "check_exists"
            /\ frame[p].request_id \in StoredIds(db)
            /\ Steps(p))
           => pc'[p] = "update_status" /\ result'[p] = NoResult
        /\ (pc[p] = "commit_update" /\ pc'[p] = "select_request")
           => LET id == frame[p].request_id
                  before == RowsOf(db.status_history, id)
                  after == RowsOf(db'.status_history, id)
              IN /\ frame[p].status \in Statuses
                 /\ id \in StoredIds(db')
                 /\ RequestRow(db', id).status = frame[p].status
                 /\ Len(after) = Len(before) + 1
                 /\ IsPrefix(before, after)
                 /\ after[Len(after)].status = frame[p].status

C8_AnyTransitionAllowed == [][C8_Step]_vars

\* a request that was closed has been updated again, to the status it already had
C8_Witness ==
    \E id \in StoredIds(db) :
        /\ StatusesOf(RowsOf(db.status_history, id)) = <<"Open", "Closed", "Closed">>
        /\ RequestRow(db, id).status = "Closed"

----------------------------------------------------------------------------
(* The quality gate of the upload *)

\* a required text field of a candidate holds nothing: the key is missing,
\* the value is null, or it is a string that is empty after trimming
EmptyText(d, field) ==
    \/ field \notin DOMAIN d
    \/ d[field] = None
    \/ d[field].t = "str" /\ Strip(d[field].v) = <<>>

\* a candidate has no order lines: the key is missing, null, or an empty list
EmptyLines(d) ==
    \/ "order_lines" \notin DOMAIN d
    \/ d["order_lines"] = None
    \/ d["order_lines"].t = "list" /\ Len(d["order_lines"].v) = 0

\* candidate A of the upload is complete on the five required fields
CompleteCandidate(u) ==
    /\ u.pypdf_result.t = "dict"
    /\ \A field \in TextFields : ~EmptyText(u.pypdf_result.v, field)
    /\ ~EmptyLines(u.pypdf_result.v)

\* the Field Extractor failed on the structural text
PypdfExtractionFailed(u) ==
    \E i \in 1..Len(u.llm_calls) :
        u.llm_calls[i].source = "pypdf" /\ u.llm_calls[i].raised

\* the structural text was extracted and candidate A is not sufficient
InsufficientCandidate(u) ==
    /\ u.pypdf_text.t = "str"
    /\ \/ Strip(u.pypdf_text.v) = <<>>
       \/ PypdfExtractionFailed(u)
       \/ u.pypdf_result.t = "dict" /\ ~CompleteCandidate(u)

\* C9: whenever the structural text is empty or whitespace-only, or the
\* Field Extractor fails on it, or candidate A has one of vat_id,
\* vendor_name, department, title empty after trimming or no order lines,
\* the OCR Extractor has been run, and the Field Extractor has been run on
\* the text it produced, by the time a result or an error is returned.
C9_OcrWhenInsufficient ==
    (upload.pc = "responded" /\ InsufficientCandidate(upload))
        => /\ upload.ocr_calls >= 1
           /\ upload.ocr_text.t = "str"
                  => \E i \in 1..Len(upload.llm_calls) :
                         /\ upload.llm_calls[i].source = "ocr"
                         /\ upload.llm_calls[i].text = upload.ocr_text.v

\* C10: when candidate A is complete on the five required fields, the OCR
\* Extractor is never invoked for the upload and the record returned is
\* candidate A itself, every field as the Field Extractor gave it.
C10_CompleteSkipsOcr ==
    CompleteCandidate(upload)
        => /\ upload.ocr_calls = 0
           /\ upload.ocr_result = None
           /\ upload.pc = "responded"
                  => upload.response = [status |-> 200, body |-> upload.pypdf_result]

\* a complete candidate A that differs from the usual answer has been returned
C10_Witness ==
    /\ upload.pc = "responded"
    /\ CompleteCandidate(upload)
    /\ upload.pypdf_result.v["title"] = Str(<<" ", "X", "Y", "Z", "W", " ">>)
    /\ upload.response.status = 200
    /\ upload.response.body = upload.pypdf_result
    /\ upload.ocr_calls = 0

----------------------------------------------------------------------------
(* The candidates at the end of the orchestration *)

\* the route counts a result as a candidate when it is a non-empty record
HasCandidateA(u) == u.pypdf_result.t = "dict" /\ DOMAIN u.pypdf_result.v # {}

HasCandidateB(u) == u.ocr_result.t = "dict" /\ DOMAIN u.ocr_result.v # {}

\* the upload passed validation and structural extraction and has answered
Orchestrated(u) == u.pc = "responded" /\ u.pypdf_text.t = "str"

\* the OCR path was entered and did not end with a candidate
OcrPathFailed(u) ==
    /\ u.pc \in {"results", "responded"}
    /\ u.ocr_calls >= 1
    /\ ~HasCandidateB(u)

\* C11: when exactly one candidate exists at the end of the orchestration
\* the upload succeeds with that candidate as it was extracted, unmerged;
\* an error of the OCR path while candidate A exists does not fail the
\* upload.
C11_SoleCandidateReturned ==
    Orchestrated(upload)
        => /\ (HasCandidateA(upload) /\ ~HasCandidateB(upload))
                  => upload.response = [status |-> 200, body |-> upload.pypdf_result]
           /\ (HasCandidateB(upload) /\ ~HasCandidateA(upload))
                  => upload.response = [status |-> 200, body |-> upload.ocr_result]

\* candidate A is incomplete, the second page of the OCR pass failed, and
\* candidate A was returned
C11_Witness ==
    /\ Orchestrated(upload)
    /\ HasCandidateA(upload)
    /\ ~CompleteCandidate(upload)
    /\ OcrPathFailed(upload)
    /\ upload.page_num = 1
    /\ upload.ocr_text = None
    /\ upload.response = [status |-> 200, body |-> upload.pypdf_result]

----------------------------------------------------------------------------
(* The merge of two candidates *)

\* both candidates exist and the upload has answered with their merge
Merged(u) == Orchestrated(u) /\ HasCandidateA(u) /\ HasCandidateB(u)

MergedKeys(u) == DOMAIN u.pypdf_result.v \cup DOMAIN u.ocr_result.v

\* the value a candidate gives for a field; a missing key reads as ""
ValueOf(candidate, field) ==
    IF field \in DOMAIN candidate.v THEN candidate.v[field] ELSE Str(<<>>)

\* the line items of a candidate; missing or not a list reads as empty
LinesOf(candidate) ==
    IF "order_lines" \in DOMAIN candidate.v /\ candidate.v["order_lines"].t = "list"
    THEN candidate.v["order_lines"].v
    ELSE <<>>

\* C13: the merged order_lines is the structural candidate's sequence when
\* it has at least as many items as the OCR candidate's, and the OCR
\* candidate's sequence only when that has strictly more; a missing or
\* non-list order_lines counts as the empty sequence.
C13_MergeOrderLines ==
    (Merged(upload) /\ "order_lines" \in MergedKeys(upload))
        => upload.response.body.v["order_lines"] =
               List(IF Len(LinesOf(upload.pypdf_result)) >= Len(LinesOf(upload.ocr_result))
                    THEN LinesOf(upload.pypdf_result)
                    ELSE LinesOf(upload.ocr_result))

\* both candidates have two line items, different ones, and the merge took
\* the structural candidate's
C13_Witness ==
    /\ Merged(upload)
    /\ LinesOf(upload.pypdf_result) = <<"line1", "line2">>
    /\ LinesOf(upload.ocr_result) = <<"line3", "line4">>
    /\ upload.response.body.v["order_lines"] = List(<<"line1", "line2">>)

\* a text value that is not empty after trimming whitespace
NonBlank(value) == value.t = "str" /\ Strip(value.v) # <<>>

\* C14: for vendor_name and department the merged value is the OCR
\* candidate's value whenever that is non-empty after trimming, however
\* long the structural candidate's value is, and the structural
\* candidate's value otherwise.
C14_MergePrefersOcr ==
    Merged(upload)
        => \A field \in {"vendor_name", "department"} \cap MergedKeys(upload) :
               upload.response.body.v[field] =
                   IF NonBlank(ValueOf(upload.ocr_result, field))
                   THEN ValueOf(upload.ocr_result, field)
                   ELSE ValueOf(upload.pypdf_result, field)

\* the OCR candidate's vendor_name is shorter than the structural one's and
\* was taken; its department is blank and the structural one's was taken
C14_Witness ==
    /\ Merged(upload)
    /\ ValueOf(upload.pypdf_result, "vendor_name") = Str(<<"A", "G">>)
    /\ ValueOf(upload.ocr_result, "vendor_name") = Str(<<"B">>)
    /\ upload.response.body.v["vendor_name"] = Str(<<"B">>)
    /\ ValueOf(upload.ocr_result, "department") = Str(<<" ">>)
    /\ upload.response.body.v["department"] = Str(<<"I", "T">>)

\* the fields merged by the general rule
OtherFields(u) == MergedKeys(u) \ {"order_lines", "vendor_name", "department"}

\* the trimmed string form of a value; null has none
TrimmedForm(value) == IF value = None THEN <<>> ELSE Strip(PyStr(value))

\* the value the general rule picks, given the two string forms
LongerWins(pypdf_val, ocr_val, pypdf_form, ocr_form) ==
    IF pypdf_form = <<>> /\ ocr_form # <<>> THEN ocr_val
    ELSE IF ocr_form = <<>> /\ pypdf_form # <<>> THEN pypdf_val
    ELSE IF Len(ocr_form) > Len(pypdf_form) THEN ocr_val
    ELSE pypdf_val

\* C15: for every other field, if exactly one candidate's trimmed
\* string form is non-empty the merged value is that candidate's; if both
\* are non-empty it is the one with the longer trimmed string form; on
\* equal length, and when both are empty, it is the structural candidate's.
C15_MergeOtherFields ==
    Merged(upload)
        => \A field \in OtherFields(upload) :
               upload.response.body.v[field] =
                   LongerWins(ValueOf(upload.pypdf_result, field),
                              ValueOf(upload.ocr_result, field),
                              TrimmedForm(ValueOf(upload.pypdf_result, field)),
                              TrimmedForm(ValueOf(upload.ocr_result, field)))

\* a candidate cut down to one field
Restrict(candidate, field) ==
    Dict([key \in DOMAIN candidate.v \cap {field} |-> candidate.v[key]])

\* the merged value of a field is what the merge gives for the two
\* candidates cut down to that field: any two pairs of candidates that
\* agree on the field agree with the same cut-down pair, hence with each
\* other
FieldLocal(u) ==
    \A field \in MergedKeys(u) :
        u.response.body.v[field] =
            Merge(Restrict(u.pypdf_result, field), Restrict(u.ocr_result, field)).v[field]

\* the values the candidates hold for a field
HeldValues(u, field) ==
    {candidate.v[field] : candidate \in {c \in {u.pypdf_result, u.ocr_result} :
                                            field \in DOMAIN c.v}}

\* C16 as stated: the merged value of a field depends on the two
\* candidates' values of that field only, it is always the value one of
\* the candidates holds for the field, and the merged record's keys are
\* exactly the union of the candidates' keys.
C16_MergeFieldLocal ==
    Merged(upload)
        => /\ DOMAIN upload.response.body.v = MergedKeys(upload)
           /\ FieldLocal(upload)
           /\ \A field \in MergedKeys(upload) :
                  upload.response.body.v[field] \in HeldValues(upload, field)

\* the values of a field the merge chooses from: a missing key reads as
\* "", and for order_lines a value that is not a list reads as []
ReadValues(u, field) ==
    IF field = "order_lines"
    THEN {List(LinesOf(u.pypdf_result)), List(LinesOf(u.ocr_result))}
    ELSE {ValueOf(u.pypdf_result, field), ValueOf(u.ocr_result, field)}

\* C16 as amended: field-local and deterministic, the keys are the union,
\* and the merged value of a field is one candidate's value of it, where a
\* missing key counts as the empty string and an order_lines value that is
\* not a list as the empty list.
C16_MergeFieldLocalDefaults ==
    Merged(upload)
        => /\ DOMAIN upload.response.body.v = MergedKeys(upload)
           /\ FieldLocal(upload)
           /\ \A field \in MergedKeys(upload) :
                  upload.response.body.v[field] \in ReadValues(upload, field)

\* a merge of a candidate without vat_id with one whose vat_id is null and
\* whose other values differ from the first's
C16_Witness ==
    /\ Merged(upload)
    /\ "vat_id" \notin DOMAIN upload.pypdf_result.v
    /\ "vat_id" \in DOMAIN upload.ocr_result.v
    /\ upload.ocr_result.v["vat_id"] = None
    /\ DOMAIN upload.response.body.v = Fields
    /\ upload.response.body.v["vat_id"] = Str(<<>>)
    /\ upload.response.body.v["vendor_name"] = Str(<<"B">>)
    /\ upload.response.body.v["title"] = Str(<<"P", "C">>)

----------------------------------------------------------------------------
(* The extraction cache *)

\* the bytes of an uploaded file
ContentOf(file) == [size |-> file.size, readable |-> file.readable, pages |-> file.pages]

\* C17: after a successful upload the extraction cache holds an entry
\* keyed by the content hash of the uploaded bytes that stores the
\* filename and the result returned to the caller.
C17_UploadsCached ==
    (upload.pc = "responded" /\ upload.response.status = 200)
        => \E i \in 1..Len(db.document_cache) :
               /\ db.document_cache[i].file_hash = compute_file_hash(ContentOf(upload.file))
               /\ db.document_cache[i].filename = upload.file.filename
               /\ json_loads(db.document_cache[i].extracted_data) = upload.response.body

\* the rows of the cache table that carry a hash
CacheRows(d, file_hash) ==
    {i \in 1..Len(d.document_cache) : d.document_cache[i].file_hash = file_hash}

\* the cache table holds, per hash, nothing before the first committed
\* write and afterwards one row with the filename and data of the last
\* committed write
C18_Stored ==
    \A file_hash \in FileHashes :
        IF cached[file_hash] = NoData
        THEN CacheRows(db, file_hash) = {}
        ELSE /\ Cardinality(CacheRows(db, file_hash)) = 1
             /\ \A i \in CacheRows(db, file_hash) :
                    /\ db.document_cache[i].filename = cached[file_hash].filename
                    /\ json_loads(db.document_cache[i].extracted_data)
                           = cached[file_hash].extracted_data

\* a get_cached_extraction that returns, returns the data of the last
\* committed write of its hash, or None when there is none
C18_Returned ==
    \A p \in Procs :
        (pc[p] = "select_cache" /\ pc'[p] = "done")
            => result'[p] = IF cached[frame[p].file_hash] = NoData THEN ReturnNone
                            ELSE [kind |-> "data",
                                  value |-> cached[frame[p].file_hash].extracted_data]

\* C18: the cache holds at most one entry per file hash, last writer wins:
\* under any interleaving of cache_extraction calls get_cached_extraction
\* returns the data of the most recently committed write of the hash, None
\* when none has committed, and a write never changes another hash's entry.
C18_LastWriterWins == []C18_Stored /\ [][C18_Returned]_vars

\* worker 1 has read the first entry of h1; worker 2 has since committed
\* another filename and other data for h1, next to the entry of h2
C18_Witness ==
    /\ pc[1] = "done"
    /\ frame[1].op = "get_cached"
    /\ frame[1].file_hash = "h1"
    /\ result[1] = [kind |-> "data", value |-> [title |-> "A"]]
    /\ pc[2] = "done"
    /\ frame[2].op = "cache"
    /\ frame[2].file_hash = "h1"
    /\ cached["h1"] = [filename |-> "scan.pdf", extracted_data |-> [title |-> "B"]]
    /\ cached["h2"] = [filename |-> "offer.pdf", extracted_data |-> [title |-> "A"]]
    /\ Len(db.document_cache) = 2

----------------------------------------------------------------------------
(* Page errors *)

\* the structural text of the pages, a page that raises giving ""
RECURSIVE TextSkippingBadPages(_)
TextSkippingBadPages(pages) ==
    IF pages = <<>> THEN <<>>
    ELSE (IF Head(pages).t = "str" THEN Head(pages).v ELSE <<>>)
             \o TextSkippingBadPages(Tail(pages))

\* C19: a page on which text extraction raises does not fail the upload:
\* the page contributes the empty string, the other pages' text is
\* concatenated in page order, and the orchestration goes on to the
\* quality gate and the OCR fallback.
C19_BadPageSkipped ==
    (/\ upload.pc = "responded"
     /\ upload.file.readable
     /\ \E i \in 1..Len(upload.file.pages) : upload.file.pages[i] = PageRaises)
        => /\ upload.response.status # 500
           /\ upload.pypdf_text = Str(TextSkippingBadPages(upload.file.pages))

\* the transcriptions of pages 1..n, in page order, with the page-break
\* marker between them
RECURSIVE InPageOrder(_, _)
InPageOrder(texts, n) ==
    IF n = 0 THEN <<>>
    ELSE IF n = 1 THEN texts[1]
    ELSE InPageOrder(texts, n - 1) \o PAGE_BREAK \o texts[n]

\* the OCR pass was started and ended without a text
OcrStageFailed(u) ==
    /\ u.pc \in {"results", "responded"}
    /\ u.ocr_calls >= 1
    /\ u.ocr_text = None

\* C20: the OCR stage is all-or-nothing and page-ordered.  When it
\* succeeds its text is the transcriptions of all pages 1..n in page order
\* joined by the page-break marker, and that text is what the Field
\* Extractor gets; when a page's model call fails the stage has no text,
\* the Field Extractor is not called for the OCR path, and the
\* orchestrator goes on without a candidate B.
C20_OcrAllOrNothing ==
    /\ upload.ocr_text.t = "str"
           => /\ Len(upload.all_text) = Len(upload.file.pages)
              /\ \A i \in 1..Len(upload.all_text) :
                     upload.all_text[i] \in OcrReplies(i)
              /\ upload.ocr_text.v = InPageOrder(upload.all_text, Len(upload.file.pages))
    /\ \A i \in 1..Len(upload.llm_calls) :
           upload.llm_calls[i].source = "ocr"
               => /\ upload.ocr_text.t = "str"
                  /\ upload.llm_calls[i].text = upload.ocr_text.v
    /\ OcrStageFailed(upload)
           => /\ upload.ocr_result = None
              /\ \A i \in 1..Len(upload.llm_calls) : upload.llm_calls[i].source # "ocr"
              /\ upload.pc = "responded"
                     => upload.response =
                            IF HasCandidateA(upload)
                            THEN [status |-> 200, body |-> upload.pypdf_result]
                            ELSE HTTPException(400,
                                "Could not extract text from PDF. PyPDF2 and OCR both failed.")

\* no structural text; page 1 was transcribed, the model call for page 2
\* failed, and the upload failed without a call of the Field Extractor
C20_Witness ==
    /\ upload.pc = "responded"
    /\ OcrStageFailed(upload)
    /\ Len(upload.file.pages) = 2
    /\ upload.all_text = <<<<"p", "1">>>>
    /\ upload.llm_calls = <<>>
    /\ upload.response.status = 400

----------------------------------------------------------------------------
(* The create endpoint *)

\* the body that was submitted for a stored request
Submitted(id) == created[CHOOSE n \in 1..Len(created) : created[n].id = id].body

\* the data of a lifecycle record holds every field and every order line of a
\* body, the lines in the body's order
Reproduces(data, body) ==
    /\ \A field \in BodyFields : data[field] = body[field]
    /\ Len(data.order_lines) = Len(body.order_lines)
    /\ \A i \in 1..Len(body.order_lines) : data.order_lines[i] = body.order_lines[i]

\* C21 as stated: for every payload the create endpoint accepts, the record
\* create_request returns, every later get_request on its id, and get_request run
\* on the committed database reproduce every submitted field and every order
\* line, in the submitted order, exactly as submitted.
C21_RoundTrip ==
    /\ \A n \in 1..Len(created) :
         Reproduces(get_request(db, created[n].id).data, created[n].body)
    /\ \A p \in Procs :
         (pc[p] = "done" /\ result[p].kind = "record")
         => Reproduces(result[p].value.data, Submitted(result[p].value.id))

\* a number, or the number a string of digits spells
NumberSent(x) == Num(IF x.t = "num" THEN x.v ELSE ParseDecimal(x.v))

\* a body as the endpoint hands it on: the texts as submitted, the vat_id trimmed,
\* in upper case and without blanks, the numbers as numbers
AsValidated(body) ==
    [field \in BodyFields \cup {"order_lines"} |->
        CASE field = "vat_id" -> Str(Replace(Upper(Strip(body.vat_id.v)), " "))
          [] field = "total_cost" -> NumberSent(body.total_cost)
          [] field = "order_lines" ->
                [i \in 1..Len(body.order_lines) |->
                    [g \in DOMAIN body.order_lines[i] |->
                        IF g \in LineFields THEN NumberSent(body.order_lines[i][g])
                        ELSE body.order_lines[i][g]]]
          [] OTHER -> body[field]]

\* C21 (amended): for every payload the create endpoint accepts and stores, the
\* record create_request returns, every later get_request on its id, and
\* get_request run on the committed database reproduce every field and every
\* order line, in the submitted order: each text exactly as submitted, except
\* the vat_id, which comes back trimmed, in upper case and without blanks, and
\* each number with the submitted value, also when it was sent as a string.
C21_RoundTripValidated ==
    /\ \A n \in 1..Len(created) :
         Reproduces(get_request(db, created[n].id).data, AsValidated(created[n].body))
    /\ \A p \in Procs :
         (pc[p] = "done" /\ result[p].kind = "record")
         => Reproduces(result[p].value.data,
                       AsValidated(Submitted(result[p].value.id)))

\* a second request was created from a body whose vat_id was sent in lower case
\* with blanks and whose record shows it normalised, next to a stored request
\* whose total_cost was sent as a string
C21_Witness ==
    /\ pc[1] = "done"
    /\ result[1].kind = "record"
    /\ Len(created) = 2
    /\ result[1].value.id = created[2].id
    /\ created[2].body.vat_id # GoodBody.vat_id
    /\ result[1].value.data.vat_id = GoodBody.vat_id
    /\ Len(result[1].value.data.order_lines) = 1
    /\ created[1].body.total_cost = Str(<<"1", "0", "0">>)
    /\ get_request(db, created[1].id).data.total_cost = Num(100)

\* a number, or a string spelling one, that is zero or negative
NotPositive(x) == IsNumber(x) /\ ToNumber(x) <= 0

\* the payloads C22 is about: total_cost, or an order line's unit_price, amount
\* or total_price, is zero or negative, the order lines are empty, or the vat_id
\* or the commodity_group_id is invalid
BadPayload(body) ==
    \/ NotPositive(body.total_cost)
    \/ \E i \in 1..Len(body.order_lines) :
          \E field \in LineFields : NotPositive(body.order_lines[i][field])
    \/ body.order_lines = <<>>
    \/ ~VAT_ID_PATTERN(Replace(Upper(Strip(body.vat_id.v)), " "))
    \/ Len(body.vat_id.v) \notin 1..20
    \/ body.commodity_group_id.v \notin VALID_COMMODITY_IDS

\* C22 (step part): the endpoint answers such a payload with the validation
\* error at once, and the step touches neither the committed database nor an
\* open transaction.
C22_Rejected ==
    \A p \in Procs :
        (/\ pc[p] = "idle"
         /\ frame'[p].op \in {"create", "rejected"}
         /\ BadPayload(frame'[p].body))
        => /\ result'[p] = RequestValidationError
           /\ pc'[p] = "done"
           /\ db' = db
           /\ wdb' = wdb
           /\ lock' = lock

\* C22 (state part): no call that holds such a payload is ever inside
\* create_request, and every request row, committed or in an open transaction,
\* has total_cost > 0 and at least one order line in the committed database,
\* and every order line row has unit_price > 0, amount > 0 and total_price > 0.
C22_Stored ==
    /\ \A p \in Procs :
         (frame[p].op \in {"create", "rejected"} /\ BadPayload(frame[p].body))
         => pc[p] = "done" /\ result[p] = RequestValidationError
    /\ \A d \in {db, wdb} :
         /\ \A i \in 1..Len(d.procurement_requests) :
              /\ d.procurement_requests[i].total_cost.t = "num"
              /\ d.procurement_requests[i].total_cost.v > 0
         /\ \A k \in 1..Len(d.order_lines) :
              /\ d.order_lines[k].unit_price.t = "num"
              /\ d.order_lines[k].unit_price.v > 0
              /\ d.order_lines[k].amount.t = "num"
              /\ d.order_lines[k].amount.v > 0
              /\ d.order_lines[k].total_price.t = "num"
              /\ d.order_lines[k].total_price.v > 0
    /\ \A i \in 1..Len(db.procurement_requests) :
         Len(RowsOf(db.order_lines, db.procurement_requests[i].id)) >= 1

\* C22: a create payload in which total_cost, or any order line's unit_price,
\* amount or total_price, is zero or negative, or whose order_lines is empty, or
\* whose vat_id or commodity_group_id is invalid, yields a validation error and
\* persists nothing; every stored request has total_cost > 0 and at least one
\* order line, and every stored order line has unit_price > 0, amount > 0 and
\* total_price > 0.
C22_InvalidPayloadRejected == []C22_Stored /\ [][C22_Rejected]_vars

\* a payload whose second order line has the amount 0 was answered with the
\* validation error while one request is stored, and nothing was added
C22_Witness ==
    /\ pc[1] = "done"
    /\ result[1] = RequestValidationError
    /\ frame[1].op = "rejected"
    /\ Len(frame[1].body.order_lines) = 2
    /\ frame[1].body.order_lines[2].amount = Num(0)
    /\ Len(db.procurement_requests) = 1
    /\ Len(db.order_lines) = 1
    /\ lock = 0

----------------------------------------------------------------------------
(* Concurrent creations *)

\* C23 (state part): in every committed state the request rows have pairwise
\* distinct ids, there is one row per committed create call, and get_request
\* shows for each row the fields and the order lines of the one call that
\* committed under its id and the single history entry {Open, created_at} of
\* that call; no order line and no history row belongs to anything else.
C23_Stored ==
    /\ \A i, j \in 1..Len(db.procurement_requests) :
         i # j => db.procurement_requests[i].id # db.procurement_requests[j].id
    /\ Len(db.procurement_requests) = Len(created)
    /\ \A i \in 1..Len(db.procurement_requests) :
         LET row == db.procurement_requests[i]
             made == {n \in 1..Len(created) : created[n].id = row.id}
             r == get_request(db, row.id)
         IN /\ Cardinality(made) = 1
            /\ \A n \in made :
                 /\ r.data = created[n].request_data
                 /\ r.created_at = created[n].created_at
                 /\ r.status_history =
                        <<[status |-> "Open", timestamp |-> created[n].created_at]>>
    /\ \A k \in 1..Len(db.order_lines) :
         db.order_lines[k].request_id \in StoredIds(db)
    /\ \A k \in 1..Len(db.status_history) :
         db.status_history[k].request_id \in StoredIds(db)

\* C23 (step part): a create call whose id is already stored when it reaches its
\* INSERT raises there and leaves the committed database, the open transaction
\* of the other call and the write lock as they were.
C23_Loser ==
    \A p \in Procs :
        (/\ pc[p] = "insert_request"
         /\ Steps(p)
         /\ frame[p].request_id \in StoredIds(View(p)))
        => /\ pc'[p] = "done"
           /\ result'[p] = Raised
           /\ db' = db
           /\ wdb' = wdb
           /\ lock' = lock

\* C23: for any interleaving of concurrent create_request calls, the stored
\* requests have pairwise distinct ids and each stored request's order lines and
\* initial history entry are exactly those of the single create call that stored
\* it: a call that loses an id collision persists no request row, no order line
\* and no history entry, and attaches no row to the other call's request.
C23_CollisionLoserPersistsNothing == []C23_Stored /\ [][C23_Loser]_vars

\* both calls took the id REQ-0001; the one with the other payload committed, and
\* this one raised at its INSERT without having written a row
C23_Witness ==
    \E p \in Procs :
        /\ pc[p] = "done" /\ result[p] = Raised
        /\ frame[p].op = "create"
        /\ frame[p].line_no = 0
        /\ frame[p].request_id \in StoredIds(db)
        /\ RequestRow(db, frame[p].request_id).title # frame[p].request_data.title
        /\ Len(db.order_lines) =
               Len(created[1].request_data.order_lines)
        /\ Len(db.status_history) = 1

\* what create_request hands back: the record its closing get_request builds
C24_Returned ==
    \A p \in Procs :
        (/\ frame[p].op = "create"
         /\ pc[p] = "select_history"
         /\ pc'[p] = "done")
        => /\ result'[p].kind = "record"
           /\ result'[p].value.id = frame[p].request_id
           /\ result'[p].value.status = "Open"
           /\ result'[p].value.status_history =
                  <<[status |-> "Open", timestamp |-> frame[p].created_at]>>

\* C24: the lifecycle record returned by a successful create_request always
\* shows the freshly created state, status Open and a status_history of exactly
\* one entry {Open, created_at}, whatever update_request_status calls on the same
\* id run on the other worker meanwhile.
C24_CreateReturnsFreshRecord == [][C24_Returned]_vars

====
